---- MODULE Spec2Model ----
(***************************************************************************)
(* A model of the AI agent calculator: the calculator tool                 *)
(* (src/src/tools.py), the agent initializer (src/src/agent.py), the CLI   *)
(* loop (src/src/main.py) and the Streamlit front end (src/src/app.py).    *)
(*                                                                         *)
(* Strings are sequences of one-character strings.                         *)
(***************************************************************************)
EXTENDS Integers, Sequences, FiniteSets, TLC

(***************************************************************************)
(* Bounds of the model.                                                    *)
(***************************************************************************)
\* longest expression string handed to calculator_tool
MaxLen == 4
\* largest integer magnitude the model computes exactly; every larger value
\* an expression within MaxLen + 1 characters can denote exceeds 2^63 - 1
ValueCap == 1000000000

\* the characters expression strings are built from
Chars == {"0", "2", "+", "-", "*", "/", "^", "x", "(", ")", " ", "a"}
Digits == {"0", "2"}
Letters == {"a", "x"}

RECURSIVE StringsOfLen(_)
StringsOfLen(n) ==
    IF n = 0 THEN {<<>>}
    ELSE {Append(s, c) : s \in StringsOfLen(n - 1), c \in Chars}

Strings == UNION {StringsOfLen(n) : n \in 0..MaxLen}

(***************************************************************************)
(* str.replace(old, new) for a one-character old: a left-to-right scan     *)
(* that copies every other character and writes new for each old.          *)
(***************************************************************************)
RECURSIVE Replace(_, _, _)
Replace(s, old, new) ==
    IF s = <<>> THEN <<>>
    ELSE IF Head(s) = old THEN new \o Replace(Tail(s), old, new)
    ELSE <<Head(s)>> \o Replace(Tail(s), old, new)

\* str.replace(old, new, 1): only the first occurrence
RECURSIVE ReplaceFirst(_, _, _)
ReplaceFirst(s, old, new) ==
    IF s = <<>> THEN <<>>
    ELSE IF Head(s) = old THEN new \o Tail(s)
    ELSE <<Head(s)>> \o ReplaceFirst(Tail(s), old, new)

\* variants of the sanitization: x is left alone; only the first occurrences
SanitizeCaretOnly(expression) == Replace(expression, "^", <<"*", "*">>)
SanitizeFirstOnly(expression) ==
    ReplaceFirst(ReplaceFirst(expression, "^", <<"*", "*">>), "x", <<"*">>)

\* safe_expression = expression.replace('^', '**').replace('x', '*')
Sanitize(expression) ==
    Replace(Replace(expression, "^", <<"*", "*">>), "x", <<"*">>)

(***************************************************************************)
(* Values of the evaluator.  k is "int" or "float" (the rational n/d in    *)
(* lowest terms, d > 0), "big" (an integer beyond ValueCap), "fbig" (a     *)
(* float whose numerator or denominator is beyond ValueCap), or "err" (a   *)
(* raised exception, named by e).                                          *)
(***************************************************************************)
Val(k, n, d, e) == [k |-> k, n |-> n, d |-> d, e |-> e]
IntV(n) == Val("int", n, 1, "")
ErrV(e) == Val("err", 0, 1, e)
BigV == Val("big", 0, 1, "")
FBigV == Val("fbig", 0, 1, "")

Abs(n) == IF n < 0 THEN -n ELSE n

RECURSIVE Gcd(_, _)
Gcd(a, b) == IF b = 0 THEN a ELSE Gcd(b, a % b)

\* a * b is beyond ValueCap
MulOver(a, b) == b # 0 /\ Abs(a) > ValueCap \div Abs(b)

IsNum(v) == v.k \in {"int", "float"}
IsFloat(v) == v.k \in {"float", "fbig"}

\* the rational n/d (d # 0) as a value of kind k, in lowest terms
Rat(k, n, d) ==
    LET g == Gcd(Abs(n), Abs(d))
        s == IF d < 0 THEN -1 ELSE 1
    IN  Val(k, s * (n \div g), Abs(d) \div g, "")

\* the kind of a result beyond ValueCap
Beyond(a, b) == IF IsFloat(a) \/ IsFloat(b) THEN FBigV ELSE BigV
ResKind(a, b) == IF IsFloat(a) \/ IsFloat(b) THEN "float" ELSE "int"

\* an operand that is an exception or beyond the cap decides the result:
\* the left operand is evaluated first
Strict(a, b, r) ==
    IF a.k = "err" THEN a
    ELSE IF b.k = "err" THEN b
    ELSE IF ~IsNum(a) \/ ~IsNum(b) THEN Beyond(a, b)
    ELSE r

AddV(a, b) ==
    Strict(a, b,
        IF MulOver(a.n, b.d) \/ MulOver(b.n, a.d) \/ MulOver(a.d, b.d)
           \/ Abs(a.n * b.d + b.n * a.d) > ValueCap
        THEN Beyond(a, b)
        ELSE Rat(ResKind(a, b), a.n * b.d + b.n * a.d, a.d * b.d))

NegV(a) == IF IsNum(a) THEN Val(a.k, -a.n, a.d, "") ELSE a

SubV(a, b) == AddV(a, NegV(b))

MulV(a, b) ==
    Strict(a, b,
        IF MulOver(a.n, b.n) \/ MulOver(a.d, b.d)
        THEN Beyond(a, b)
        ELSE Rat(ResKind(a, b), a.n * b.n, a.d * b.d))

\* a / b: true division, always a float
DivV(a, b) ==
    IF a.k = "err" THEN a
    ELSE IF b.k = "err" THEN b
    ELSE IF IsNum(b) /\ b.n = 0 THEN ErrV("division by zero")
    ELSE IF ~IsNum(a) \/ ~IsNum(b) THEN FBigV
    ELSE IF MulOver(a.n, b.d) \/ MulOver(a.d, b.n) THEN FBigV
    ELSE Rat("float", a.n * b.d, a.d * b.n)

\* floor(n / d) for d > 0
Floor(n, d) == IF n >= 0 THEN n \div d ELSE -((-n + d - 1) \div d)

\* a // b: floor division
FloorDivV(a, b) ==
    IF a.k = "err" THEN a
    ELSE IF b.k = "err" THEN b
    ELSE IF IsNum(b) /\ b.n = 0 THEN ErrV("division by zero")
    ELSE IF ~IsNum(a) \/ ~IsNum(b) THEN Beyond(a, b)
    ELSE IF MulOver(a.n, b.d) \/ MulOver(a.d, b.n) THEN Beyond(a, b)
    ELSE LET q == Rat("float", a.n * b.d, a.d * b.n)
         IN  Val(ResKind(a, b), Floor(q.n, q.d), 1, "")

\* a ** e for an integer e >= 0, by repeated multiplication
RECURSIVE PowNat(_, _)
PowNat(a, e) ==
    IF e = 0 THEN Val(a.k, 1, 1, "")
    ELSE LET r == PowNat(a, e - 1)
         IN  IF ~IsNum(r) THEN r ELSE MulV(r, a)

\* a ** b
PowV(a, b) ==
    IF a.k = "err" THEN a
    ELSE IF b.k = "err" THEN b
    ELSE IF ~IsNum(a) \/ ~IsNum(b) THEN Beyond(a, b)
    ELSE IF b.d # 1 THEN FBigV
    ELSE IF a.n = 0
         THEN IF b.n < 0 THEN ErrV("0.0 cannot be raised to a negative power")
              ELSE Val(ResKind(a, b), IF b.n = 0 THEN 1 ELSE 0, 1, "")
    ELSE IF a.d = 1 /\ Abs(a.n) = 1
         THEN Val(IF b.n < 0 THEN "float" ELSE ResKind(a, b),
                  IF a.n = 1 \/ b.n % 2 = 0 THEN 1 ELSE -1, 1, "")
    ELSE IF Abs(b.n) > 31 THEN (IF b.n < 0 THEN FBigV ELSE Beyond(a, b))
    ELSE IF b.n >= 0
         THEN LET r == PowNat(a, b.n)
              IN  IF IsNum(r) THEN Val(ResKind(a, b), r.n, r.d, "") ELSE Beyond(a, b)
    ELSE LET r == PowNat(a, -b.n)
         IN  IF IsNum(r) THEN Rat("float", r.d, r.n) ELSE FBigV

(***************************************************************************)
(* The lexer of the expression evaluator (numexpr compiles the string as a *)
(* Python expression).  A token is [t, s, v]: t is "num" (value v), "name",*)
(* "op" (symbol s) or "bad" (a lexical error).                             *)
(***************************************************************************)
Tok(t, s, v) == [t |-> t, s |-> s, v |-> v]

DigitVal(c) == IF c = "2" THEN 2 ELSE 0

\* the length of the longest prefix of s made of characters of set
RECURSIVE RunLen(_, _)
RunLen(s, set) ==
    IF s = <<>> \/ Head(s) \notin set THEN 0 ELSE 1 + RunLen(Tail(s), set)

\* the value of a run of digits, MSB first; ValueCap + 1 stands for more
RECURSIVE DecVal(_, _)
DecVal(ds, acc) ==
    IF ds = <<>> THEN acc
    ELSE IF acc > (ValueCap - 9) \div 10 THEN ValueCap + 1
    ELSE DecVal(Tail(ds), 10 * acc + DigitVal(Head(ds)))

Drop(s, n) == SubSeq(s, n + 1, Len(s))
Take(s, n) == SubSeq(s, 1, n)

\* a decimal integer literal has no leading zero unless it is all zeros
LeadingZero(ds) == Len(ds) > 1 /\ Head(ds) = "0" /\ \E i \in 1..Len(ds) : ds[i] # "0"

RECURSIVE Lex(_)
Lex(s) ==
    IF s = <<>> THEN <<>>
    ELSE LET c == Head(s) IN
      IF c = " " THEN Lex(Tail(s))
      ELSE IF c \in Digits THEN
        LET n == RunLen(s, Digits)
            rest == Drop(s, n)
        IN  IF (rest # <<>> /\ Head(rest) \in Letters) \/ LeadingZero(Take(s, n))
            THEN <<Tok("bad", "literal", 0)>>
            ELSE <<Tok("num", "", DecVal(Take(s, n), 0))>> \o Lex(rest)
      ELSE IF c \in Letters THEN
        <<Tok("name", "", 0)>> \o Lex(Drop(s, RunLen(s, Letters \cup Digits)))
      ELSE IF c \in {"*", "/"} /\ Len(s) > 1 /\ s[2] = c THEN
        <<Tok("op", IF c = "*" THEN "**" ELSE "//", 0)>> \o Lex(Drop(s, 2))
      ELSE IF c \in {"+", "-", "*", "/", "(", ")"} THEN
        <<Tok("op", c, 0)>> \o Lex(Tail(s))
      ELSE <<Tok("bad", c, 0)>>

\* compile(s, '<expr>', 'eval') rejects leading whitespace (unexpected indent)
PyTokens(s) ==
    IF s # <<>> /\ Head(s) = " " THEN <<Tok("bad", "indent", 0)>> ELSE Lex(s)

(***************************************************************************)
(* The parser and evaluator: recursive descent over the tokens.  A result  *)
(* is [ok, val, pos]: ok is FALSE on a syntax error, val the value of the  *)
(* part parsed, pos the index of the next token.                           *)
(*   expr   := term (("+" | "-") term)*                                    *)
(*   term   := factor (("*" | "/" | "//") factor)*                         *)
(*   factor := ("+" | "-") factor | power                                  *)
(*   power  := primary ["**" factor]                                       *)
(*   primary:= atom ("(" [["*" | "**"] expr] ")")*                         *)
(*   atom   := NUMBER | NAME | "(" [expr] ")"                              *)
(***************************************************************************)
Res(ok, val, pos) == [ok |-> ok, val |-> val, pos |-> pos]
Fail == Res(FALSE, ErrV("invalid syntax"), 0)

IsOp(toks, pos, ops) ==
    pos <= Len(toks) /\ toks[pos].t = "op" /\ toks[pos].s \in ops

RECURSIVE ParseExpr(_, _), ExprRest(_, _), ParseTerm(_, _), TermRest(_, _)
RECURSIVE ParseFactor(_, _), ParsePower(_, _), ParsePrimary(_, _), Trailers(_, _)
RECURSIVE ParseAtom(_, _)

\* the parenthesized expression r, up to its closing parenthesis
Closed(toks, r) ==
    IF r.ok /\ IsOp(toks, r.pos, {")"}) THEN Res(TRUE, r.val, r.pos + 1) ELSE Fail

ParseAtom(toks, pos) ==
    IF pos > Len(toks) THEN Fail
    ELSE IF toks[pos].t = "num" THEN
        Res(TRUE, IF toks[pos].v > ValueCap THEN BigV ELSE IntV(toks[pos].v), pos + 1)
    ELSE IF toks[pos].t = "name" THEN Res(TRUE, ErrV("name"), pos + 1)
    ELSE IF IsOp(toks, pos, {"("}) THEN
        IF IsOp(toks, pos + 1, {")"})
        THEN Res(TRUE, ErrV("unsupported expression type"), pos + 2)
        ELSE Closed(toks, ParseExpr(toks, pos + 1))
    ELSE Fail

\* a call of a value that is not a function raises (left operand first)
CallV(f, arg) == IF f.k = "err" THEN f ELSE ErrV("object is not callable")

\* the call of r with the argument a, up to its closing parenthesis
Called(toks, r, a) ==
    IF r.ok /\ a.ok /\ IsOp(toks, a.pos, {")"})
    THEN Res(TRUE, CallV(r.val, a.val), a.pos + 1)
    ELSE Fail

\* the argument of a call starts after "(" and an optional "*" or "**"
ArgStart(toks, pos) ==
    IF IsOp(toks, pos + 1, {"*", "**"}) THEN pos + 2 ELSE pos + 1

Trailers(toks, r) ==
    IF ~r.ok \/ ~IsOp(toks, r.pos, {"("}) THEN r
    ELSE IF IsOp(toks, r.pos + 1, {")"})
         THEN Trailers(toks, Res(TRUE, CallV(r.val, r.val), r.pos + 2))
    ELSE Trailers(toks, Called(toks, r, ParseExpr(toks, ArgStart(toks, r.pos))))

ParsePrimary(toks, pos) == Trailers(toks, ParseAtom(toks, pos))

\* the operator op applied to the values a and b
Apply(op, a, b) ==
    CASE op = "+" -> AddV(a, b)
      [] op = "-" -> SubV(a, b)
      [] op = "*" -> MulV(a, b)
      [] op = "/" -> DivV(a, b)
      [] op = "//" -> FloorDivV(a, b)
      [] op = "**" -> PowV(a, b)

\* the parsed left operand l, the operator op and the parsed right operand r
Combine(op, l, r) ==
    IF ~r.ok THEN Fail ELSE Res(TRUE, Apply(op, l.val, r.val), r.pos)

\* the base b and, after "**", its exponent
PowerOf(toks, b) ==
    IF b.ok /\ IsOp(toks, b.pos, {"**"})
    THEN Combine("**", b, ParseFactor(toks, b.pos + 1))
    ELSE b

ParsePower(toks, pos) == PowerOf(toks, ParsePrimary(toks, pos))

\* the sign op in front of the parsed factor r
Signed(op, r) ==
    IF ~r.ok THEN Fail
    ELSE Res(TRUE, IF op = "-" THEN NegV(r.val) ELSE r.val, r.pos)

ParseFactor(toks, pos) ==
    IF IsOp(toks, pos, {"+", "-"})
    THEN Signed(toks[pos].s, ParseFactor(toks, pos + 1))
    ELSE ParsePower(toks, pos)

TermRest(toks, l) ==
    IF ~l.ok \/ ~IsOp(toks, l.pos, {"*", "/", "//"}) THEN l
    ELSE TermRest(toks, Combine(toks[l.pos].s, l, ParseFactor(toks, l.pos + 1)))

ParseTerm(toks, pos) == TermRest(toks, ParseFactor(toks, pos))

ExprRest(toks, l) ==
    IF ~l.ok \/ ~IsOp(toks, l.pos, {"+", "-"}) THEN l
    ELSE ExprRest(toks, Combine(toks[l.pos].s, l, ParseTerm(toks, l.pos + 1)))

ParseExpr(toks, pos) == ExprRest(toks, ParseTerm(toks, pos))

\* the value of the whole token sequence, or the syntax error
Whole(toks, r) ==
    IF r.ok /\ r.pos = Len(toks) + 1 THEN r.val ELSE ErrV("invalid syntax")

EvalTokens(toks) == Whole(toks, ParseExpr(toks, 1))

(***************************************************************************)
(* numexpr.evaluate(safe_expression): the string is compiled and evaluated *)
(* as a Python expression over constants; names are unbound variables; an  *)
(* integer result is stored as a 32- or 64-bit integer.  A division by     *)
(* zero is an exception or an infinity.  An outcome is [raised, val].      *)
(***************************************************************************)
Outcome(raised, val) == [raised |-> raised, val |-> val]
InfV == Val("inf", 0, 1, "")
ZeroDivision == {"division by zero", "0.0 cannot be raised to a negative power"}

\* the outcomes of an evaluation whose value is v
OutcomesOf(v) ==
    IF v.k = "err" /\ v.e \in ZeroDivision
    THEN {Outcome(TRUE, v), Outcome(FALSE, InfV)}
    ELSE IF v.k = "err" THEN {Outcome(TRUE, v)}
    ELSE IF v.k = "big" THEN {Outcome(TRUE, ErrV("int too large"))}
    ELSE {Outcome(FALSE, v)}

numexpr_evaluate(safe_expression) == OutcomesOf(EvalTokens(PyTokens(safe_expression)))

(***************************************************************************)
(* str(result.item()).  A returned string is [form, text, n, d]: the text  *)
(* of an integer is its decimal digits; the digits of a float are not      *)
(* rendered, the string is identified by the form "float" and the value    *)
(* n/d it prints.                                                          *)
(***************************************************************************)
Str(form, text, n, d) == [form |-> form, text |-> text, n |-> n, d |-> d]

DigitChar(i) == <<"0", "1", "2", "3", "4", "5", "6", "7", "8", "9">>[i + 1]

RECURSIVE NatToStr(_)
NatToStr(n) ==
    IF n < 10 THEN <<DigitChar(n)>>
    ELSE Append(NatToStr(n \div 10), DigitChar(n % 10))

IntToStr(n) == IF n < 0 THEN <<"-">> \o NatToStr(-n) ELSE NatToStr(n)

StrOfItem(v) ==
    IF v.k = "int" THEN Str("int", IntToStr(v.n), v.n, 1)
    ELSE IF v.k = "inf" THEN Str("inf", <<"i", "n", "f">>, 0, 1)
    ELSE IF v.k = "float" THEN Str("float", <<>>, v.n, v.d)
    ELSE Str("float", <<>>, 0, 0)

\* "Calculation error: "
Marker ==
    <<"C", "a", "l", "c", "u", "l", "a", "t", "i", "o", "n", " ",
      "e", "r", "r", "o", "r", ":", " ">>

\* variant: the message alone
ErrorStringNoMarker(e) == Str("error", <<e>>, 0, 1)

\* f"Calculation error: {str(e)}"; the message of e is one piece of text
ErrorString(e) == Str("error", Marker \o <<e>>, 0, 1)

\* variant: except ZeroDivisionError
ExceptZeroDivisionError(e) == e \in ZeroDivision

\* except Exception: every exception the evaluation raises is an Exception
ExceptException(e) == TRUE

(***************************************************************************)
(* calculator_tool(expression) under the outcome out of the evaluation:    *)
(* [escaped, safe, ret]; escaped means the exception left the function.    *)
(***************************************************************************)
ToolResult(escaped, safe, ret) == [escaped |-> escaped, safe |-> safe, ret |-> ret]
NoStr == Str("none", <<>>, 0, 1)

\* the body of the try statement and its handler, for safe_expression
TryExcept(safe, out) ==
    IF ~out.raised THEN ToolResult(FALSE, safe, StrOfItem(out.val))
    ELSE IF ExceptException(out.val.e)
         THEN ToolResult(FALSE, safe, ErrorString(out.val.e))
    ELSE ToolResult(TRUE, safe, NoStr)

calculator_tool(expression, out) == TryExcept(Sanitize(expression), out)

(***************************************************************************)
(* initialize_agent(): api_key is os.getenv("GROQ_API_KEY"), "None" when   *)
(* unset; fails names the external constructor that raises, if any.  The   *)
(* result records what was constructed when the call returned or raised.   *)
(***************************************************************************)
None == "None"
EnvValues == {None, "", "fake_key_123"}
Constructors == {"ChatGroq", "create_react_agent", "AgentExecutor"}
MissingKey == "GROQ_API_KEY not found in .env file."

\* variant: the key is not checked
NotApiKeyUnchecked(api_key) == FALSE

\* not api_key
NotApiKey(api_key) == api_key = None \/ api_key = ""

InitResult(raised, msg, llm, agents, executors) ==
    [raised |-> raised, msg |-> msg, llm_built |-> llm, agents_built |-> agents,
     executors_built |-> executors]

initialize_agent(api_key, fails) ==
    IF NotApiKey(api_key) THEN InitResult(TRUE, MissingKey, 0, 0, 0)
    ELSE IF fails = "ChatGroq" THEN InitResult(TRUE, fails, 0, 0, 0)
    ELSE IF fails = "create_react_agent" THEN InitResult(TRUE, fails, 1, 0, 0)
    ELSE IF fails = "AgentExecutor" THEN InitResult(TRUE, fails, 1, 1, 0)
    ELSE InitResult(FALSE, "", 1, 1, 1)

NotCalled == InitResult(FALSE, "not called", 0, 0, 0)

\* variant: one more iteration
max_iterations_more == 5 + 1

\* AgentExecutor(..., handle_parsing_errors=True, max_iterations=5)
handle_parsing_errors == TRUE
max_iterations == 5

(***************************************************************************)
(* The CLI: the lines read from standard input.                            *)
(***************************************************************************)
MaxLineLen == 3
LineChars == {"b", "y", "e", "E", " "}

RECURSIVE LinesOfLen(_)
LinesOfLen(n) ==
    IF n = 0 THEN {<<>>}
    ELSE {Append(s, c) : s \in LinesOfLen(n - 1), c \in LineChars}

\* str.lower() and str.upper() on the letters of the model
LowerChar(c) ==
    CASE c = "B" -> "b" [] c = "Y" -> "y" [] c = "E" -> "e" [] c = "X" -> "x"
      [] c = "I" -> "i" [] c = "T" -> "t" [] c = "Q" -> "q" [] c = "U" -> "u"
      [] c = "H" -> "h" [] OTHER -> c
UpperChar(c) ==
    CASE c = "b" -> "B" [] c = "y" -> "Y" [] c = "e" -> "E" [] c = "x" -> "X"
      [] c = "i" -> "I" [] c = "t" -> "T" [] c = "q" -> "Q" [] c = "u" -> "U"
      [] c = "h" -> "H" [] OTHER -> c

Lower(s) == [i \in 1..Len(s) |-> LowerChar(s[i])]

\* ["exit", "quit", "bye"]
ExitWords == {<<"e", "x", "i", "t">>, <<"q", "u", "i", "t">>, <<"b", "y", "e">>}

\* every spelling of w in upper and lower case letters
CaseVariants(w) ==
    {s \in [1..Len(w) -> UNION {{c, UpperChar(c)} : c \in {w[i] : i \in 1..Len(w)}}] :
        \A i \in 1..Len(w) : s[i] \in {w[i], UpperChar(w[i])}}

Lines ==
    UNION {LinesOfLen(n) : n \in 0..MaxLineLen}
    \cup UNION {CaseVariants(w) : w \in ExitWords}
    \cup {<<" ">> \o w : w \in ExitWords} \cup {w \o <<" ">> : w \in ExitWords}

\* str.strip(): without leading and trailing whitespace
RECURSIVE LStrip(_)
LStrip(s) == IF s # <<>> /\ Head(s) = " " THEN LStrip(Tail(s)) ELSE s
RECURSIVE RStrip(_)
RStrip(s) ==
    IF s # <<>> /\ s[Len(s)] = " " THEN RStrip(SubSeq(s, 1, Len(s) - 1)) ELSE s
Strip(s) == RStrip(LStrip(s))

\* variant: without lower()
IsExitCaseSensitive(user_input) == user_input \in ExitWords

\* user_input.lower() in ["exit", "quit", "bye"]
IsExit(user_input) == Lower(user_input) \in ExitWords

\* variant: except ValueError
MainExceptValueError(e) == e = "OutputParserException"

\* except Exception as e, around agent.invoke in main
MainExcept(e) == TRUE

(***************************************************************************)
(* The web front end: sessions, prompts and transcripts.                   *)
(***************************************************************************)
MaxSessions == 2
MaxWebTurns == 2
Sessions == 1..MaxSessions
Prompts == {"hi", "2 + 2"}
Answer == "final answer"
ErrorText == "An error occurred: invocation failed"

Msg(role, content) == [role |-> role, content |-> content]

\* variant: no cache, every run builds an agent
get_agent_uncached(session, cache, instances, api_key, fails) ==
    IF initialize_agent(api_key, fails).raised
    THEN [ok |-> FALSE, agent |-> 0, cache |-> cache, instances |-> instances]
    ELSE [ok |-> TRUE, agent |-> instances + 1, cache |-> cache,
          instances |-> instances + 1]

\* @st.cache_resource get_agent(): one cache for the process, shared by every
\* session; a call that raises caches nothing.  cache and the instances are
\* numbered from 1, 0 is no instance.  [ok, agent, cache, instances]
get_agent(session, cache, instances, api_key, fails) ==
    IF cache # 0
    THEN [ok |-> TRUE, agent |-> cache, cache |-> cache, instances |-> instances]
    ELSE IF initialize_agent(api_key, fails).raised
    THEN [ok |-> FALSE, agent |-> 0, cache |-> 0, instances |-> instances]
    ELSE [ok |-> TRUE, agent |-> instances + 1, cache |-> instances + 1,
          instances |-> instances + 1]

(***************************************************************************)
(* The state.                                                              *)
(***************************************************************************)
VARIABLES
    env,              \* the value of GROQ_API_KEY in the process environment
    \* calculator_tool
    expression,       \* the argument of the last call
    safe_expression,  \* its local safe_expression
    ret,              \* the string the last call returned
    escaped,          \* an exception left the last call
    calcpc,           \* "ready" or "returned"
    \* main (CLI)
    clipc,            \* "start", "prompt", "invoking", "done", "crashed"
    init,             \* what initialize_agent did
    user_input,       \* the line read last
    console,          \* what was printed last
    iterations,       \* the executor's iterations in the running invocation
    last_step,        \* the kind of the executor's last step
    llm_called,       \* an LLM call was attempted
    \* app (web)
    messages,         \* st.session_state.messages of each session
    has_messages,     \* "messages" in st.session_state, of each session
    agent_cache,      \* the resource cache of get_agent
    instances,        \* the executors constructed so far
    agent,            \* the variable agent of each session's script
    chat_input,       \* the chat input is rendered in the session's page
    webpc,            \* per session: "idle" or "invoking"
    last_actor,       \* the session whose script ran last
    last_outcome      \* the outcome of the last agent.invoke of each session

calcVars == <<expression, safe_expression, ret, escaped, calcpc>>
cliVars == <<clipc, init, user_input, console, iterations, last_step, llm_called>>
webVars == <<messages, has_messages, agent_cache, instances, agent, chat_input,
             webpc, last_actor, last_outcome>>
vars == <<env, calcVars, cliVars, webVars>>

Init ==
    /\ env = None
    /\ expression = <<>> /\ safe_expression = <<>> /\ ret = NoStr /\ escaped = FALSE
    /\ calcpc = "ready"
    /\ clipc = "start" /\ init = NotCalled /\ user_input = <<>> /\ console = "header"
    /\ iterations = 0 /\ last_step = "none" /\ llm_called = FALSE
    /\ messages = [s \in Sessions |-> <<>>]
    /\ has_messages = [s \in Sessions |-> FALSE]
    /\ agent_cache = 0 /\ instances = 0
    /\ agent = [s \in Sessions |-> 0]
    /\ chat_input = [s \in Sessions |-> FALSE]
    /\ webpc = [s \in Sessions |-> "idle"]
    /\ last_actor = 0
    /\ last_outcome = [s \in Sessions |-> "none"]

(***************************************************************************)
(* calculator_tool.invoke(e): one call of the tool.                        *)
(***************************************************************************)
\* the call of e that ended as r
Call(e, r) ==
    /\ expression' = e
    /\ safe_expression' = r.safe
    /\ ret' = r.ret
    /\ escaped' = r.escaped

CalculatorTool ==
    /\ calcpc = "ready"
    /\ \E e \in Strings :
         \E out \in numexpr_evaluate(Sanitize(e)) : Call(e, calculator_tool(e, out))
    /\ calcpc' = "returned"
    /\ UNCHANGED <<env, cliVars, webVars>>

\* the caller takes the result; the tool keeps nothing between calls
CalculatorDone ==
    /\ calcpc = "returned"
    /\ calcpc' = "ready"
    /\ expression' = <<>> /\ safe_expression' = <<>> /\ ret' = NoStr
    /\ escaped' = FALSE
    /\ UNCHANGED <<env, cliVars, webVars>>

CalcNext == CalculatorTool \/ CalculatorDone
CalcSpec == Init /\ [][CalcNext]_vars

(***************************************************************************)
(* load_dotenv(): the environment of the process is set before main or the *)
(* first run of the web script starts.                                     *)
(***************************************************************************)
LoadDotenv ==
    /\ clipc = "start"
    /\ \A s \in Sessions : ~has_messages[s]
    /\ env' \in EnvValues \ {env}
    /\ UNCHANGED <<calcVars, cliVars, webVars>>

(***************************************************************************)
(* main(): the CLI.                                                        *)
(***************************************************************************)
\* try: agent = initialize_agent() ... except Exception: print; return
MainInitialize ==
    /\ clipc = "start"
    /\ \E fails \in Constructors \cup {"none"} :
         LET r == initialize_agent(env, fails) IN
           /\ init' = r
           /\ IF r.raised
              THEN console' = "Initialization Error" /\ clipc' = "done"
              ELSE console' = "Type 'exit' to quit." /\ clipc' = "prompt"
    /\ UNCHANGED <<env, calcVars, webVars, user_input, iterations, last_step,
                   llm_called>>

\* one pass of the loop up to the invocation: Prompt.ask, the exit words,
\* the blank line
ReadLine ==
    /\ clipc = "prompt"
    /\ \E line \in Lines :
         /\ user_input' = line
         /\ IF IsExit(line)
            THEN console' = "Shutting down... Goodbye!" /\ clipc' = "done"
            ELSE IF Strip(line) = <<>>
            THEN console' = console /\ clipc' = "prompt"
            ELSE console' = "Thinking..." /\ clipc' = "invoking"
    /\ iterations' = 0
    /\ last_step' = "none"
    /\ UNCHANGED <<env, calcVars, webVars, init, llm_called>>

\* the end of agent.invoke in main: the answer is printed, or the exception
\* is caught and printed, and the loop goes on
Returned(output) ==
    /\ console' = output
    /\ clipc' = "prompt"
    /\ iterations' = 0

Raised(e) ==
    /\ IF MainExcept(e)
       THEN console' = "Execution Error" /\ clipc' = "prompt"
       ELSE console' = "Traceback" /\ clipc' = "crashed"
    /\ iterations' = 0

(***************************************************************************)
(* agent.invoke: the executor's loop, one step per action.  A step asks    *)
(* the LLM, which answers with the final answer, a tool action or text     *)
(* that does not parse, or fails; a tool may fail.                         *)
(***************************************************************************)
StepKinds == {"final", "action", "malformed", "llm_error", "tool_error"}

AgentStep ==
    /\ clipc = "invoking"
    /\ iterations < max_iterations
    /\ \E kind \in StepKinds :
         /\ last_step' = kind
         /\ CASE kind = "final" ->
                   Returned("Assistant")
              [] kind = "action" ->
                   /\ iterations' = iterations + 1
                   /\ UNCHANGED <<console, clipc>>
              [] kind = "malformed" ->
                   IF handle_parsing_errors
                   THEN /\ iterations' = iterations + 1
                        /\ UNCHANGED <<console, clipc>>
                   ELSE Raised("OutputParserException")
              [] OTHER -> Raised(kind)
    /\ llm_called' = TRUE
    /\ UNCHANGED <<env, calcVars, webVars, init, user_input>>

\* the budget is used up: the executor returns its stopping response
AgentStop ==
    /\ clipc = "invoking"
    /\ iterations >= max_iterations
    /\ last_step' = "stopped"
    /\ Returned("Assistant")
    /\ UNCHANGED <<env, calcVars, webVars, init, user_input, llm_called>>

CliNext == LoadDotenv \/ MainInitialize \/ ReadLine \/ AgentStep \/ AgentStop
CliSpec == Init /\ [][CliNext]_vars

(***************************************************************************)
(* app.py: one run of the script in a session.  Streamlit runs the whole   *)
(* script on a page load and on every submitted message.                   *)
(***************************************************************************)
\* if "messages" not in st.session_state: st.session_state.messages = []
InitMessages(s) ==
    /\ has_messages' = [has_messages EXCEPT ![s] = TRUE]

\* a run without a submitted message: the state, the agent, the history, the
\* chat input; st.stop() ends the run when the agent cannot be built
PageLoad(s) ==
    /\ webpc[s] = "idle"
    /\ \E fails \in Constructors \cup {"none"} :
         LET g == get_agent(s, agent_cache, instances, env, fails) IN
           /\ agent_cache' = g.cache
           /\ instances' = g.instances
           /\ agent' = [agent EXCEPT ![s] = g.agent]
           /\ chat_input' = [chat_input EXCEPT ![s] = g.ok]
    /\ InitMessages(s)
    /\ last_actor' = s
    /\ UNCHANGED <<env, calcVars, cliVars, messages, webpc, last_outcome>>

\* a run with a submitted message, up to the invocation: the user message
\* is appended to the transcript
Submit(s) ==
    /\ webpc[s] = "idle"
    /\ chat_input[s]
    /\ Len(messages[s]) < 2 * MaxWebTurns
    /\ \E prompt \in Prompts, fails \in Constructors \cup {"none"} :
         LET g == get_agent(s, agent_cache, instances, env, fails) IN
           /\ agent_cache' = g.cache
           /\ instances' = g.instances
           /\ agent' = [agent EXCEPT ![s] = g.agent]
           /\ chat_input' = [chat_input EXCEPT ![s] = g.ok]
           /\ IF g.ok
              THEN /\ messages' = [messages EXCEPT ![s] =
                                     Append(@, Msg("user", prompt))]
                   /\ webpc' = [webpc EXCEPT ![s] = "invoking"]
              ELSE UNCHANGED <<messages, webpc>>
    /\ InitMessages(s)
    /\ last_actor' = s
    /\ UNCHANGED <<env, calcVars, cliVars, last_outcome>>

\* variant: an invocation that raises appends nothing
RespondDropsError(s) ==
    /\ webpc[s] = "invoking"
    /\ \E outcome \in {"returned", "raised"} :
         /\ last_outcome' = [last_outcome EXCEPT ![s] = outcome]
         /\ messages' = [messages EXCEPT ![s] =
                           IF outcome = "returned"
                           THEN Append(@, Msg("assistant", Answer)) ELSE @]
    /\ webpc' = [webpc EXCEPT ![s] = "idle"]
    /\ last_actor' = s
    /\ UNCHANGED <<env, calcVars, cliVars, has_messages, agent_cache, instances,
                   agent, chat_input>>

\* the rest of the run: agent.invoke returns or raises, and the answer or
\* the error text is appended as the assistant's message
Respond(s) ==
    /\ webpc[s] = "invoking"
    /\ \E outcome \in {"returned", "raised"} :
         LET output_text == IF outcome = "returned" THEN Answer ELSE ErrorText IN
           /\ last_outcome' = [last_outcome EXCEPT ![s] = outcome]
           /\ messages' = [messages EXCEPT ![s] =
                             Append(@, Msg("assistant", output_text))]
    /\ webpc' = [webpc EXCEPT ![s] = "idle"]
    /\ last_actor' = s
    /\ UNCHANGED <<env, calcVars, cliVars, has_messages, agent_cache, instances,
                   agent, chat_input>>

WebNext == LoadDotenv \/ \E s \in Sessions : PageLoad(s) \/ Submit(s) \/ Respond(s)
WebSpec == Init /\ [][WebNext]_vars

(***************************************************************************)
(* The arithmetic reading of an expression string, independent of the      *)
(* sanitization: whitespace separates tokens anywhere, ^ is the power      *)
(* operator, x and * are the multiplication operator, / is division.       *)
(***************************************************************************)
RECURSIVE MathLex(_)
MathLex(s) ==
    IF s = <<>> THEN <<>>
    ELSE LET c == Head(s) IN
      IF c = " " THEN MathLex(Tail(s))
      ELSE IF c \in Digits THEN
        LET n == RunLen(s, Digits)
            rest == Drop(s, n)
        IN  IF LeadingZero(Take(s, n)) THEN <<Tok("bad", "literal", 0)>>
            ELSE <<Tok("num", "", DecVal(Take(s, n), 0))>> \o MathLex(rest)
      ELSE IF c = "^" THEN <<Tok("op", "**", 0)>> \o MathLex(Tail(s))
      ELSE IF c \in {"x", "*"} THEN <<Tok("op", "*", 0)>> \o MathLex(Tail(s))
      ELSE IF c \in {"+", "-", "/", "(", ")"} THEN <<Tok("op", c, 0)>> \o MathLex(Tail(s))
      ELSE <<Tok("bad", c, 0)>>

\* no juxtaposition (a call) and no empty parentheses
NoCall(toks) ==
    \A i \in 1..(Len(toks) - 1) :
        IsOp(toks, i + 1, {"("}) => toks[i].t = "op" /\ toks[i].s # ")"
NoEmptyParens(toks) ==
    \A i \in 1..(Len(toks) - 1) : ~(IsOp(toks, i, {"("}) /\ IsOp(toks, i + 1, {")"}))

MathValue(s) == EvalTokens(MathLex(s))

MathWellFormed(s) ==
    LET toks == MathLex(s) IN
      /\ \A i \in 1..Len(toks) : toks[i].t \in {"num", "op"}
      /\ NoCall(toks) /\ NoEmptyParens(toks)
      /\ ~(MathValue(s).k = "err" /\ MathValue(s).e = "invalid syntax")

\* ret is the string of the value v
StringOf(v, r) ==
    \/ v.k = "int" /\ r = Str("int", IntToStr(v.n), v.n, 1)
    \/ v.k = "float" /\ r.form = "float" /\ r.n = v.n /\ r.d = v.d

BeginsWith(text, prefix) ==
    Len(text) >= Len(prefix) /\ SubSeq(text, 1, Len(prefix)) = prefix

\* the decimal digits of an integer, with its sign
IsIntegerText(text) ==
    LET body == IF text # <<>> /\ Head(text) = "-" THEN Tail(text) ELSE text IN
      body # <<>> /\ \A i \in 1..Len(body) :
          body[i] \in {"0", "1", "2", "3", "4", "5", "6", "7", "8", "9"}

IsNumericString(r) ==
    \/ r.form = "int" /\ IsIntegerText(r.text)
    \/ r.form = "float"
    \/ r.form = "inf" /\ r.text = <<"i", "n", "f">>

\* each character of the input, replaced on its own
Image(c) == IF c = "^" THEN <<"*", "*">> ELSE IF c = "x" THEN <<"*">> ELSE <<c>>
RECURSIVE Lexical(_)
Lexical(s) == IF s = <<>> THEN <<>> ELSE Image(Head(s)) \o Lexical(Tail(s))

IsPrefix(s, t) == Len(s) <= Len(t) /\ SubSeq(t, 1, Len(s)) = s

\* line is the word w up to the case of its letters
SameWord(line, w) ==
    Len(line) = Len(w) /\ \A i \in 1..Len(w) : line[i] \in {w[i], UpperChar(w[i])}
IsExitWord(line) == \E w \in ExitWords : SameWord(line, w)

(***************************************************************************)
(* The claims.                                                             *)
(***************************************************************************)

\* C1: calculator_tool is total: for every input string the call returns a
\* string and no exception escapes; the string is either the string of the
\* numeric result or begins with "Calculation error:", never both.
C1_Total ==
    calcpc = "returned" =>
        /\ ~escaped
        /\ ret.form \in {"int", "float", "inf", "error"}
        /\ (IsNumericString(ret) \/ BeginsWith(ret.text, Marker))
        /\ ~(IsNumericString(ret) /\ BeginsWith(ret.text, Marker))

\* the division by zero "2/0" came back as an error string
C1_Witness ==
    /\ calcpc = "returned"
    /\ expression = <<"2", "/", "0">>
    /\ BeginsWith(ret.text, Marker)

HasLetter(s) == \E i \in 1..Len(s) : s[i] = "a"
NoTokens(s) == \A i \in 1..Len(s) : s[i] \in {"a", " "}

C10_Lexical ==
    calcpc = "returned" =>
        /\ safe_expression = Lexical(expression)
        /\ \A i \in 1..Len(safe_expression) : safe_expression[i] \notin {"^", "x"}

\* x and ^ inside a word, twice
C10_Witness ==
    /\ calcpc = "returned"
    /\ expression = <<"a", "x", "x", "^">>
    /\ safe_expression = <<"a", "*", "*", "*", "*">>

\* C4: initialize_agent checks the credential first: without GROQ_API_KEY it
\* raises 'GROQ_API_KEY not found' with no LLM client, agent or executor
\* constructed and no LLM call attempted; with the credential, a call that
\* returns has constructed the LLM client once, the agent once and the
\* executor, and a call that raises was failed by one of the constructors.
C4_CredentialFirst ==
    clipc # "start" =>
        /\ env = None =>
             /\ init.raised /\ init.msg = MissingKey
             /\ init.llm_built = 0 /\ init.agents_built = 0
             /\ init.executors_built = 0
             /\ ~llm_called
             /\ clipc = "done"
        /\ env = "fake_key_123" /\ ~init.raised =>
             /\ init.llm_built = 1 /\ init.agents_built = 1
             /\ init.executors_built = 1
        /\ env = "fake_key_123" /\ init.raised => init.msg \in Constructors
        /\ init.llm_built <= 1 /\ init.agents_built <= 1

\* main stopped on the missing key
C4_Witness ==
    /\ env = None
    /\ clipc = "done"
    /\ init.raised
    /\ console = "Initialization Error"

C7_ExitWords ==
    [][clipc = "prompt" =>
         /\ IsExitWord(user_input') =>
              clipc' = "done" /\ llm_called' = llm_called
         /\ ~IsExitWord(user_input') => clipc' # "done"]_vars

\* "eXIT" ended the loop
C7_Witness ==
    /\ clipc = "done"
    /\ user_input = <<"e", "X", "I", "T">>
    /\ console = "Shutting down... Goodbye!"

\* C9: a turn ends after at most 5 cycles, by the final answer or by the
\* used up budget, and text of the LLM that does not parse costs a cycle and
\* does not end the turn.
C9_Budget ==
    /\ [](iterations <= 5)
    /\ [][clipc = "invoking" /\ iterations = 5 => clipc' = "prompt"]_vars
    /\ [][clipc = "invoking" /\ last_step' = "malformed" =>
            /\ clipc' = "invoking"
            /\ iterations' = iterations + 1]_vars

\* the turn ended on the used up budget
C9_Witness ==
    /\ clipc = "prompt"
    /\ last_step = "stopped"
    /\ console = "Assistant"

\* C5, as stated: every session has its own agent instance.
C5_Original ==
    \A s, u \in Sessions :
        s # u /\ agent[s] # 0 /\ agent[u] # 0 => agent[s] # agent[u]

\* C5, amended: every session has its own transcript, which no run of
\* another session's script changes; the agent is built once for the
\* process and every session uses that one instance.
C5_Amended ==
    /\ [](instances <= 1)
    /\ [](\A s \in Sessions : agent[s] # 0 => agent[s] = agent_cache)
    /\ [][\A s \in Sessions : s # last_actor' =>
            messages'[s] = messages[s] /\ has_messages'[s] = has_messages[s]]_vars

\* two sessions with the agent, one of them with a transcript
C5_Witness ==
    /\ agent[1] # 0 /\ agent[2] # 0
    /\ Len(messages[1]) = 2
    /\ messages[2] = <<>>

\* C8: the transcript of a session is append-only and ordered: a submitted
\* message appends one user entry, then one assistant entry, the answer or
\* the error text; between turns the transcript alternates user, assistant
\* and has even length.
C8_Transcript ==
    /\ [](\A s \in Sessions :
            /\ \A i \in 1..Len(messages[s]) :
                 messages[s][i].role = IF i % 2 = 1 THEN "user" ELSE "assistant"
            /\ webpc[s] = "idle" => Len(messages[s]) % 2 = 0
            /\ webpc[s] = "invoking" => Len(messages[s]) % 2 = 1)
    /\ [][\A s \in Sessions :
            /\ IsPrefix(messages[s], messages'[s])
            /\ Len(messages'[s]) <= Len(messages[s]) + 1
            /\ webpc[s] = "idle" /\ webpc'[s] = "invoking" =>
                 /\ Len(messages'[s]) = Len(messages[s]) + 1
                 /\ messages'[s][Len(messages'[s])].content \in Prompts
            /\ webpc[s] = "invoking" /\ webpc'[s] = "idle" =>
                 messages'[s] = Append(messages[s], Msg("assistant",
                     IF last_outcome'[s] = "returned" THEN Answer ELSE ErrorText))]_vars

\* two turns, the first one failed
C8_Witness ==
    \E s \in Sessions :
        /\ webpc[s] = "idle"
        /\ Len(messages[s]) = 4
        /\ messages[s][2] = Msg("assistant", ErrorText)
        /\ messages[s][4] = Msg("assistant", Answer)

====
